---- MODULE Spec2Model ----
(***************************************************************************)
(* Model of packages/server/examples/external-jobs/python/donkeylabs_job.py *)
(* The job wrapper: run_job (job thread), the DonkeylabsJob link, its       *)
(* heartbeat thread and its reconnection threads, and the job server as    *)
(* the environment (listener up or down, the current connection's peer).   *)
(* Every statement of the source that reads or writes a field shared       *)
(* between threads is one step of the thread that executes it.             *)
(***************************************************************************)
EXTENDS Integers, Sequences, FiniteSets, TLC

\* ---------------------------------------------------------------- bounds
\* Number of events the handler sends before it returns or raises.
MaxHandlerSends == 1

\* DonkeylabsJob(max_reconnect_attempts=...): 30 by default, small here.
max_reconnect_attempts == 2

\* ---------------------------------------------------------------- threads
Main == "main"
HB == "heartbeat"
Recon == {"r1", "r2"}
Threads == {Main, HB} \cup Recon
None == "None"

VARIABLES
    pc,                 \* position of every thread
    phase,              \* where run_job is: what the job thread's send returns to
    stdin,              \* the handshake line on standard input
    environ,            \* os.environ: the three DONKEYLABS_* values
    _socket_path,       \* DonkeylabsJob._socket_path (sequence of string pieces)
    _max_reconnect_attempts,    \* DonkeylabsJob._max_reconnect_attempts
    _socket,            \* DonkeylabsJob._socket: None, or the state of the socket object
    _running,           \* DonkeylabsJob._running
    _connected,         \* DonkeylabsJob._connected
    _heartbeat_thread,  \* DonkeylabsJob._heartbeat_thread
    _reconnect_thread,  \* DonkeylabsJob._reconnect_thread
    _lock,              \* holder of DonkeylabsJob._lock
    _reconnect_lock,    \* holder of DonkeylabsJob._reconnect_lock
    attempt,            \* loop variable of _try_reconnect, per reconnection thread
    kind,               \* message["type"] of the send each thread is in
    encodable,          \* whether json.dumps accepts that message
    ret,                \* outcome of each thread's current/last _send_message call
    wrote,              \* whether that call handed its frame to the transport
    listening,          \* job server: the listener accepts connections
    peer,               \* job server: its end of the link's connection is open
    wire,               \* what the server has received (summary of the event stream)
    obs                 \* observations of the run: exit code, call counts, flags

vars == <<pc, phase, stdin, environ, _socket_path, _max_reconnect_attempts,
          _socket, _running, _connected, _heartbeat_thread, _reconnect_thread,
          _lock, _reconnect_lock, attempt, kind, encodable, ret, wrote, listening,
          peer, wire, obs>>

configVars == <<_socket_path, _max_reconnect_attempts>>
linkVars == <<configVars, _socket, _running, _connected, _heartbeat_thread,
              _reconnect_thread, _lock, _reconnect_lock>>
sendVars == <<kind, encodable, ret, wrote>>
inputVars == <<stdin, environ>>
serverVars == <<listening, peer>>

\* ---------------------------------------------------------------- strings
\* A string is the sequence of its pieces, so that startswith("tcp://"),
\* [6:] and rsplit(":", 1) are computed and not assumed.
NoStr == <<>>
TcpPrefix == "tcp://"

\* f"tcp://127.0.0.1:{tcp_port}"
TcpAddress(tcp_port) == <<TcpPrefix, "127.0.0.1", ":">> \o tcp_port

\* self._socket_path.startswith("tcp://")
IsTcp(path) == Len(path) > 0 /\ path[1] = TcpPrefix

\* host, port = addr.rsplit(":", 1); int(port): raises unless there is a
\* ":" followed by digits
TcpParses(path) ==
    LET addr == Tail(path)
    IN  /\ Len(addr) >= 3
        /\ addr[Len(addr) - 1] = ":"
        /\ addr[Len(addr)] \in {"9000"}

\* _do_connect raises before or instead of opening a socket
TargetParses(path) == IsTcp(path) => TcpParses(path)

\* Python truthiness of an optional string: None and "" are falsy
Truthy(s) == s # NoStr

\* ---------------------------------------------------------------- handshake
JobIds == {NoStr, <<"j1">>}
PayloadPaths == {NoStr, <<"/tmp/p.sock">>, <<TcpPrefix, "nohost">>}
EnvJobIds == {NoStr, <<"j2">>}
EnvPaths == {NoStr, <<"/tmp/e.sock">>}
EnvPorts == {NoStr, <<"9000">>}

Stdins ==
    [line : {"eof", "garbage", "scalar"}, jobId : {NoStr}, socketPath : {NoStr}]
    \cup [line : {"object"}, jobId : JobIds, socketPath : PayloadPaths]

Environs == [JOB_ID : EnvJobIds, SOCKET_PATH : EnvPaths, TCP_PORT : EnvPorts]

\* run_job lines 305-312: job id with fallback to the environment
ResolveJobId(in, env) ==
    IF Truthy(in.jobId) THEN in.jobId ELSE env.JOB_ID

\* run_job lines 308-317: connection target with fallback
ResolveSocketPath(in, env) ==
    IF Truthy(in.socketPath) THEN in.socketPath
    ELSE IF Truthy(env.TCP_PORT) /\ ~Truthy(env.SOCKET_PATH)
         THEN TcpAddress(env.TCP_PORT)
         ELSE env.SOCKET_PATH

\* as Accepts, with the job id not tested at line 319
Accepts_AnyJobId(in, env) ==
    /\ in.line = "object"
    /\ Truthy(ResolveSocketPath(in, env))

\* the handshake is accepted: the line is there, is a JSON object, and both
\* values are truthy after the fallback (lines 295, 299-303, 305, 319)
Accepts(in, env) ==
    /\ in.line = "object"
    /\ Truthy(ResolveJobId(in, env))
    /\ Truthy(ResolveSocketPath(in, env))

\* ---------------------------------------------------------------- observations
Inc(n) == IF n < 2 THEN n + 1 ELSE 2

NoWire == [origin |-> "none", started |-> FALSE, terminal |-> FALSE,
           final |-> FALSE]

NoObs == [exit |-> -1, link |-> FALSE, attempted |-> FALSE, handler |-> 0,
          complete |-> 0, fail |-> 0, disconnect |-> 0, returned |-> FALSE,
          exhausted |-> FALSE, sent |-> 0, outcome |-> "none"]

Terminal == {"completed", "failed"}

\* the server reads one more frame of type k on the current connection
Received(w, k) ==
    [w EXCEPT !.started = w.started \/ k = "started",
              !.terminal = w.terminal \/ k \in Terminal]

\* a new connection accepted by the server, opened by connect() or by
\* _try_reconnect()
Accepted(w, by) == [w EXCEPT !.origin = by, !.started = FALSE]

Start ==
    /\ pc = [t \in Threads |-> IF t = Main THEN "m_read" ELSE "idle"]
    /\ phase = "handshake"
    /\ stdin \in Stdins
    /\ environ \in Environs
    /\ _socket_path = NoStr
    /\ _socket = None
    /\ _running = FALSE
    /\ _connected = FALSE
    /\ _heartbeat_thread = None
    /\ _reconnect_thread = None
    /\ _lock = None
    /\ _reconnect_lock = None
    /\ attempt = [r \in Recon |-> 0]
    /\ kind = [t \in Threads |-> "none"]
    /\ encodable = [t \in Threads |-> TRUE]
    /\ ret = [t \in Threads |-> "none"]
    /\ wrote = [t \in Threads |-> FALSE]
    /\ listening \in BOOLEAN
    /\ peer = FALSE
    /\ wire = NoWire
    /\ obs = NoObs

\* run_job constructs the DonkeylabsJob without max_reconnect_attempts (lines
\* 323-329), so the constructor's default is used; the bound stands for it
Init ==
    /\ Start
    /\ _max_reconnect_attempts = max_reconnect_attempts

\* the process has not ended: daemon threads run only until then
Alive == pc[Main] # "exited"

Goto(t, l) == pc' = [pc EXCEPT ![t] = l]

\* ---------------------------------------------------------------- _send_message
\* a call of _send_message by thread t (through _send_started, progress, log,
\* complete, fail or the heartbeat loop): the message is built, nothing shared
\* is read yet
Call(t, k, e) ==
    /\ pc' = [pc EXCEPT ![t] = "s_check"]
    /\ kind' = [kind EXCEPT ![t] = k]
    /\ encodable' = [encodable EXCEPT ![t] = e]
    /\ ret' = [ret EXCEPT ![t] = "none"]
    /\ wrote' = [wrote EXCEPT ![t] = FALSE]

\* the call returns v to its caller; w tells whether the frame was written
Return(t, v, w) ==
    /\ pc' = [pc EXCEPT ![t] = "s_done"]
    /\ kind' = [kind EXCEPT ![t] = "none"]
    /\ ret' = [ret EXCEPT ![t] = v]
    /\ wrote' = [wrote EXCEPT ![t] = w]
    /\ UNCHANGED encodable

\* the caller goes on: the message and the bool that _send_message returned
\* are dropped
Drop(t) ==
    /\ ret' = [ret EXCEPT ![t] = "none"]
    /\ wrote' = [wrote EXCEPT ![t] = FALSE]
    /\ encodable' = [encodable EXCEPT ![t] = TRUE]
    /\ UNCHANGED kind

\* as EncodeError, without the "except Exception" clause: the error leaves
\* _send_message
EncodeError_Uncaught(t) == Return(t, "raised", FALSE)

\* as EncodeError, with the frame reported as sent
EncodeError_Sent(t) == Return(t, "true", TRUE)

\* json.dumps raised inside the try: caught by "except Exception", line 147
EncodeError(t) == Return(t, "false", FALSE)

\* line 124: "if not self._socket: return False"
NoSocket(t) == Return(t, "false", FALSE)

\* as CanLock, with the send also waiting for the reconnect-guard lock
CanLock_WaitsReconnect(t) == _lock = None /\ _reconnect_lock = None

\* as CanLock, with a lock that excludes nobody
CanLock_Always(t) == _lock \in Threads \cup {None}

\* line 130: "with self._lock" can be entered
CanLock(t) == _lock = None

\* lines 124-130: without a socket the call returns False; otherwise the
\* message is stamped and the call enters "with self._lock"
SendEnter(t) ==
    /\ Alive
    /\ pc[t] = "s_check"
    /\ IF _socket = None
       THEN NoSocket(t) /\ UNCHANGED _lock
       ELSE /\ CanLock(t)
            /\ _lock' = t
            /\ Goto(t, "s_try")
            /\ UNCHANGED sendVars
    /\ UNCHANGED <<phase, inputVars, configVars, _socket, _running, _connected,
                   _heartbeat_thread, _reconnect_thread, _reconnect_lock, attempt,
                   serverVars, wire, obs>>

\* run_job's own job.complete(result) / job.fail(...) of lines 338 and 342
Controller(t) == t = Main /\ phase \in {"complete", "fail"}

\* line 133: the frame of thread t's call arrives at the server
Sent(t) ==
    LET w == Received(wire, kind[t])
    IN  [w EXCEPT !.final = w.final \/ Controller(t)]

\* sendall succeeds on a connected socket whose peer is open
Writable == _socket = "conn" /\ peer

\* lines 131-136 and 147-149: json.dumps, sendall, and what is caught
SendTry(t) ==
    /\ Alive
    /\ pc[t] = "s_try"
    /\ IF ~encodable[t]
       THEN /\ EncodeError(t)
            /\ _lock' = None
            /\ UNCHANGED wire
       ELSE IF Writable
       THEN /\ wire' = Sent(t)
            /\ Return(t, "true", TRUE)
            /\ _lock' = None
       ELSE /\ Goto(t, "s_lost")
            /\ UNCHANGED <<sendVars, wire, _lock>>
    /\ UNCHANGED <<phase, inputVars, configVars, _socket, _running, _connected,
                   _heartbeat_thread, _reconnect_thread, _reconnect_lock, attempt,
                   serverVars, obs>>

\* threading.Thread(...): a thread that is not running yet
NewThread == IF pc["r1"] = "idle" THEN "r1" ELSE "r2"

\* as MaySpawn, without the test of self._running
MaySpawn_NotRunning == _reconnect_thread = None

\* as MaySpawn, with the test of self._reconnect_thread inverted
MaySpawn_Inverted == _running /\ _reconnect_thread # None

\* as MaySpawn, without the test of self._reconnect_thread
MaySpawn_Unguarded == _running

\* line 140: "if self._running and not self._reconnect_thread"
MaySpawn == _running /\ _reconnect_thread = None

\* lines 135-146: sendall raised an OSError: self._connected = False, the
\* reconnection thread is started if there is none, the lock is left and the
\* call returns False
SendLost(t) ==
    /\ Alive
    /\ pc[t] = "s_lost"
    /\ _connected' = FALSE
    /\ IF MaySpawn /\ \E r \in Recon : pc[r] = "idle"
       THEN LET r == NewThread
            IN  /\ _reconnect_thread' = r
                /\ pc' = [pc EXCEPT ![t] = "s_done", ![r] = "r_lock"]
       ELSE /\ pc' = [pc EXCEPT ![t] = "s_done"]
            /\ UNCHANGED _reconnect_thread
    /\ kind' = [kind EXCEPT ![t] = "none"]
    /\ ret' = [ret EXCEPT ![t] = "false"]
    /\ _lock' = None
    /\ UNCHANGED <<phase, inputVars, configVars, _socket, _running,
                   _heartbeat_thread, _reconnect_lock, attempt, encodable, wrote,
                   serverVars, wire, obs>>

\* ---------------------------------------------------------------- heartbeat_loop
\* line 167: "while self._running", then line 168 calls _send_message
HbCheck ==
    /\ Alive
    /\ pc[HB] = "h_check"
    /\ IF _running
       THEN Call(HB, "heartbeat", TRUE)
       ELSE Goto(HB, "done") /\ UNCHANGED sendVars
    /\ UNCHANGED <<phase, inputVars, linkVars, attempt, serverVars, wire, obs>>

\* line 169: the result of the send is dropped, time.sleep(heartbeat_interval)
HbSleep ==
    /\ Alive
    /\ pc[HB] = "s_done"
    /\ Goto(HB, "h_check")
    /\ Drop(HB)
    /\ UNCHANGED <<phase, inputVars, linkVars, attempt, serverVars, wire, obs>>

\* ---------------------------------------------------------------- _reconnect_loop
\* as MoreAttempts, with the loop running once more than the limit
MoreAttempts_Inclusive(n) == n <= _max_reconnect_attempts

\* line 87: "for attempt in range(self._max_reconnect_attempts)"
MoreAttempts(n) == n < _max_reconnect_attempts

\* _do_connect can open a socket for the target (lines 68-76)
CanOpen == TargetParses(_socket_path)

\* lines 87-97 and 108-109: iteration n of the loop closes the old socket and
\* _do_connect replaces self._socket by a new, unconnected one (or raises on
\* the target); after the last iteration _try_reconnect returns False
Attempt(r, n) ==
    /\ attempt' = [attempt EXCEPT ![r] = n]
    /\ IF MoreAttempts(n)
       THEN /\ _socket' = IF CanOpen THEN "unconn"
                          ELSE IF _socket = None THEN None ELSE "closed"
            /\ peer' = FALSE
            /\ Goto(r, IF CanOpen THEN "r_connect" ELSE "r_sleep")
            /\ _reconnect_lock' = r
            /\ UNCHANGED obs
       ELSE /\ _reconnect_lock' = None
            /\ obs' = [obs EXCEPT !.exhausted = TRUE]
            /\ Goto(r, "r_clear")
            /\ UNCHANGED <<_socket, peer>>

\* lines 81-87: the new thread enters "with self._reconnect_lock";
\* "if self._connected: return True", else the loop starts
ReconEntry(r) ==
    /\ Alive
    /\ pc[r] = "r_lock"
    /\ _reconnect_lock = None
    /\ IF _connected
       THEN /\ Goto(r, "r_clear")
            /\ UNCHANGED <<_reconnect_lock, attempt, _socket, peer, obs>>
       ELSE Attempt(r, 0)
    /\ UNCHANGED <<phase, inputVars, configVars, _running, _connected,
                   _heartbeat_thread, _reconnect_thread, _lock, sendVars,
                   listening, wire>>

\* lines 73/77: socket.connect succeeds iff the server listens and the socket
\* has not been closed by disconnect() meanwhile
ReconConnect(r) ==
    /\ Alive
    /\ pc[r] = "r_connect"
    /\ IF listening /\ _socket = "unconn"
       THEN /\ _socket' = "conn"
            /\ peer' = TRUE
            /\ wire' = Accepted(wire, "reconnect")
            /\ Goto(r, "r_connected")
       ELSE /\ Goto(r, "r_sleep")
            /\ UNCHANGED <<_socket, peer, wire>>
    /\ UNCHANGED <<phase, inputVars, configVars, _running, _connected,
                   _heartbeat_thread, _reconnect_thread, _lock, _reconnect_lock,
                   attempt, sendVars, listening, obs>>

\* lines 98-102: self._connected = True, then self._send_started()
ReconConnected(r) ==
    /\ Alive
    /\ pc[r] = "r_connected"
    /\ _connected' = TRUE
    /\ Call(r, "started", TRUE)
    /\ UNCHANGED <<phase, inputVars, configVars, _socket, _running,
                   _heartbeat_thread, _reconnect_thread, _lock, _reconnect_lock,
                   attempt, serverVars, wire, obs>>

\* line 103: "return True" once _send_started has returned, whatever it returned
ReconReturn(r) ==
    /\ Alive
    /\ pc[r] = "s_done"
    /\ _reconnect_lock' = None
    /\ Goto(r, "r_clear")
    /\ Drop(r)
    /\ UNCHANGED <<phase, inputVars, configVars, _socket, _running, _connected,
                   _heartbeat_thread, _reconnect_thread, _lock, attempt, serverVars,
                   wire, obs>>

\* lines 104-106 and 87: the attempt failed, time.sleep(reconnect_interval),
\* then the next iteration
ReconSleep(r) ==
    /\ Alive
    /\ pc[r] = "r_sleep"
    /\ Attempt(r, attempt[r] + 1)
    /\ UNCHANGED <<phase, inputVars, configVars, _running, _connected,
                   _heartbeat_thread, _reconnect_thread, _lock, sendVars,
                   listening, wire>>

\* line 157: self._reconnect_thread = None, and the thread ends
ReconClear(r) ==
    /\ Alive
    /\ pc[r] = "r_clear"
    /\ _reconnect_thread' = None
    /\ attempt' = [attempt EXCEPT ![r] = 0]
    /\ Goto(r, "idle")
    /\ UNCHANGED <<phase, inputVars, configVars, _socket, _running, _connected,
                   _heartbeat_thread, _lock, _reconnect_lock, sendVars, serverVars,
                   wire, obs>>

\* ---------------------------------------------------------------- run_job
Consumed == [line |-> "eof", jobId |-> NoStr, socketPath |-> NoStr]
Unset == [JOB_ID |-> NoStr, SOCKET_PATH |-> NoStr, TCP_PORT |-> NoStr]

\* lines 294-329: read the handshake; sys.exit(1) (or, for a line that is
\* JSON but no object, the AttributeError of payload.get) ends the process
\* before a link exists; otherwise the DonkeylabsJob is constructed, and
\* neither the line nor the environment is read again.
ReadHandshake ==
    /\ pc[Main] = "m_read"
    /\ IF Accepts(stdin, environ)
       THEN /\ _socket_path' = ResolveSocketPath(stdin, environ)
            /\ obs' = [obs EXCEPT !.link = TRUE]
            /\ phase' = "connect"
            /\ Goto(Main, "m_socket")
            /\ stdin' = Consumed
            /\ environ' = Unset
       ELSE /\ obs' = [obs EXCEPT !.exit = 1]
            /\ phase' = "rejected"
            /\ Goto(Main, "exited")
            /\ UNCHANGED <<_socket_path, inputVars>>
    /\ UNCHANGED <<_max_reconnect_attempts, _socket, _running, _connected,
                   _heartbeat_thread, _reconnect_thread, _lock, _reconnect_lock,
                   attempt, sendVars, serverVars, wire>>

\* lines 339-342: "except Exception" calls job.fail(str(e), traceback)
Except ==
    /\ phase' = "fail"
    /\ Call(Main, "failed", TRUE)

\* lines 332, 60, 66-77: connect() calls _do_connect, which opens a socket
\* and connects it; a bad target or a refused connection raises out of
\* connect()
Connect ==
    /\ pc[Main] = "m_socket"
    /\ IF CanOpen /\ listening
       THEN /\ _socket' = "conn"
            /\ peer' = TRUE
            /\ wire' = Accepted(wire, "connect")
            /\ Goto(Main, "m_running")
            /\ obs' = [obs EXCEPT !.attempted = TRUE]
            /\ UNCHANGED <<phase, sendVars>>
       ELSE /\ Except
            /\ _socket' = IF CanOpen THEN "unconn" ELSE None
            /\ obs' = [obs EXCEPT !.attempted = TRUE, !.fail = Inc(obs.fail)]
            /\ UNCHANGED <<peer, wire>>
    /\ UNCHANGED <<inputVars, configVars, _running, _connected,
                   _heartbeat_thread, _reconnect_thread, _lock, _reconnect_lock,
                   attempt, listening>>

\* lines 61-64, 171-172: self._running = True, self._connected = True,
\* _start_heartbeat starts the thread, then _send_started is called
StartHeartbeat ==
    /\ pc[Main] = "m_running"
    /\ _running' = TRUE
    /\ _connected' = TRUE
    /\ _heartbeat_thread' = HB
    /\ pc' = [pc EXCEPT ![HB] = "h_check", ![Main] = "s_check"]
    /\ kind' = [kind EXCEPT ![Main] = "started"]
    /\ encodable' = [encodable EXCEPT ![Main] = TRUE]
    /\ ret' = [ret EXCEPT ![Main] = "none"]
    /\ wrote' = [wrote EXCEPT ![Main] = FALSE]
    /\ UNCHANGED <<phase, inputVars, configVars, _socket, _reconnect_thread,
                   _lock, _reconnect_lock, attempt, serverVars, wire, obs>>

\* line 335: connect() returned, the handler is invoked
InvokeHandler ==
    /\ pc[Main] = "s_done"
    /\ phase = "connect"
    /\ phase' = "handler"
    /\ obs' = [obs EXCEPT !.handler = Inc(obs.handler)]
    /\ Goto(Main, "m_handler")
    /\ Drop(Main)
    /\ UNCHANGED <<inputVars, linkVars, attempt, serverVars, wire>>

HandlerKinds == {"progress", "log", "completed", "failed"}

\* the handler calls job.progress / log / complete / fail (lines 174-267)
HandlerSend ==
    /\ pc[Main] = "m_handler"
    /\ obs.sent < MaxHandlerSends
    /\ \E k \in HandlerKinds, e \in BOOLEAN : Call(Main, k, e)
    /\ obs' = [obs EXCEPT !.sent = obs.sent + 1]
    /\ UNCHANGED <<phase, inputVars, linkVars, attempt, serverVars, wire>>

\* the handler's call returned (the bool is dropped by progress/log/...)
HandlerResume ==
    /\ pc[Main] = "s_done"
    /\ phase = "handler"
    /\ Goto(Main, "m_handler")
    /\ Drop(Main)
    /\ UNCHANGED <<phase, inputVars, linkVars, attempt, serverVars, wire, obs>>

\* lines 335-338: the handler returns a result, job.complete(result)
HandlerReturn ==
    /\ pc[Main] = "m_handler"
    /\ phase' = "complete"
    /\ \E e \in BOOLEAN : Call(Main, "completed", e)
    /\ obs' = [obs EXCEPT !.complete = Inc(obs.complete), !.outcome = "returned"]
    /\ UNCHANGED <<inputVars, linkVars, attempt, serverVars, wire>>

\* lines 339-342: the handler raises an Exception
HandlerRaise ==
    /\ pc[Main] = "m_handler"
    /\ Except
    /\ obs' = [obs EXCEPT !.fail = Inc(obs.fail), !.outcome = "raised"]
    /\ UNCHANGED <<inputVars, linkVars, attempt, serverVars, wire>>

\* when "finally" is entered: after job.complete returned, or after job.fail
\* returned and sys.exit(1) raised SystemExit (line 343)
Finally == pc[Main] = "s_done" /\ phase \in {"complete", "fail"}

\* as Disconnect, with job.disconnect() as the last statement of the "try"
\* and no "finally": sys.exit(1) leaves run_job without it
Disconnect_NoFinally ==
    /\ Finally
    /\ IF phase = "fail"
       THEN /\ obs' = [obs EXCEPT !.exit = 1]
            /\ Goto(Main, "m_returned")
            /\ UNCHANGED _running
       ELSE /\ _running' = FALSE
            /\ obs' = [obs EXCEPT !.disconnect = Inc(obs.disconnect)]
            /\ Goto(Main, "d_join")
    /\ Drop(Main)
    /\ UNCHANGED <<phase, inputVars, configVars, _socket, _connected,
                   _heartbeat_thread, _reconnect_thread, _lock, _reconnect_lock,
                   attempt, serverVars, wire>>

\* lines 344-345, 113: disconnect() begins, self._running = False
Disconnect ==
    /\ Finally
    /\ _running' = FALSE
    /\ obs' = [obs EXCEPT !.disconnect = Inc(obs.disconnect)]
    /\ Goto(Main, "d_join")
    /\ Drop(Main)
    /\ UNCHANGED <<phase, inputVars, configVars, _socket, _connected,
                   _heartbeat_thread, _reconnect_thread, _lock, _reconnect_lock,
                   attempt, serverVars, wire>>

\* as ExitCode, without the sys.exit(1) of the except path: 1 only for a
\* rejected handshake
ExitCode_NoExit == IF phase = "rejected" THEN 1 ELSE 0

\* process exit code: sys.exit(1) on the except path, 0 when run_job returns
ExitCode == IF phase = "fail" THEN 1 ELSE 0

\* lines 114-120: join(timeout=2.0) returns when the heartbeat thread has
\* ended or when the two seconds are over, whichever is first; then the
\* socket is closed and disconnect() returns; run_job is left with the exit
\* code decided
DisconnectClose ==
    /\ pc[Main] = "d_join"
    /\ _socket' = IF _socket = None THEN None ELSE "closed"
    /\ peer' = FALSE
    /\ obs' = [obs EXCEPT !.returned = TRUE, !.exit = ExitCode]
    /\ Goto(Main, "m_returned")
    /\ UNCHANGED <<phase, inputVars, configVars, _running, _connected,
                   _heartbeat_thread, _reconnect_thread, _lock, _reconnect_lock,
                   attempt, sendVars, listening, wire>>

\* the interpreter exits: the daemon threads die where they are and the
\* operating system closes the socket
ProcessExit ==
    /\ pc[Main] = "m_returned"
    /\ pc' = [t \in Threads |-> IF t = Main THEN "exited" ELSE "idle"]
    /\ _socket' = IF _socket = None THEN None ELSE "closed"
    /\ peer' = FALSE
    /\ _lock' = None
    /\ _reconnect_lock' = None
    /\ _reconnect_thread' = None
    /\ attempt' = [r \in Recon |-> 0]
    /\ kind' = [t \in Threads |-> "none"]
    /\ encodable' = [t \in Threads |-> TRUE]
    /\ ret' = [t \in Threads |-> "none"]
    /\ wrote' = [t \in Threads |-> FALSE]
    /\ UNCHANGED <<phase, inputVars, configVars, _running, _connected,
                   _heartbeat_thread, listening, wire, obs>>

\* ---------------------------------------------------------------- job server
\* the server goes away: the listener is gone and the connection is severed
ServerDown ==
    /\ Alive
    /\ listening
    /\ listening' = FALSE
    /\ peer' = FALSE
    /\ UNCHANGED <<pc, phase, inputVars, linkVars, attempt, sendVars, wire, obs>>

\* the server is back and listens again
ServerUp ==
    /\ Alive
    /\ ~listening
    /\ listening' = TRUE
    /\ UNCHANGED <<pc, phase, inputVars, linkVars, attempt, sendVars, peer, wire,
                   obs>>

\* ---------------------------------------------------------------- specification
SendStep(t) ==
    \/ SendEnter(t)
    \/ SendTry(t)
    \/ SendLost(t)

ReconStep(r) ==
    \/ ReconEntry(r)
    \/ ReconConnect(r)
    \/ ReconConnected(r)
    \/ ReconReturn(r)
    \/ ReconSleep(r)
    \/ ReconClear(r)
    \/ SendStep(r)

HbStep ==
    \/ HbCheck
    \/ HbSleep
    \/ SendStep(HB)

MainStep ==
    \/ ReadHandshake
    \/ Connect
    \/ StartHeartbeat
    \/ InvokeHandler
    \/ HandlerSend
    \/ HandlerResume
    \/ HandlerReturn
    \/ HandlerRaise
    \/ Disconnect
    \/ DisconnectClose
    \/ ProcessExit
    \/ SendStep(Main)

Next ==
    \/ MainStep
    \/ HbStep
    \/ \E r \in Recon : ReconStep(r)
    \/ ServerDown
    \/ ServerUp

Spec == Init /\ [][Next]_vars

\* One accepted handshake, for the behaviours of an established link.
InitLink ==
    /\ Init
    /\ stdin = [line |-> "object", jobId |-> <<"j1">>, socketPath |-> <<"/tmp/p.sock">>]
    /\ environ = Unset

\* A link whose DonkeylabsJob is constructed with any max_reconnect_attempts
\* from 0 on (constructor parameter, lines 41 and 50).
InitLimit ==
    /\ Start
    /\ stdin = [line |-> "object", jobId |-> <<"j1">>, socketPath |-> <<"/tmp/p.sock">>]
    /\ environ = Unset
    /\ _max_reconnect_attempts \in 0..max_reconnect_attempts

SpecLimit == InitLimit /\ [][Next]_vars

\* The heartbeat thread and the reconnection threads are scheduled again and
\* again and get self._lock when it is free again and again (every holder
\* leaves it after one sendall); a job thread that is inside the locked part
\* of _send_message leaves it.  The job thread is otherwise free to stay in
\* the handler for ever, and the server to stay down.
Fairness ==
    /\ SF_vars(HbStep)
    /\ \A r \in Recon : SF_vars(ReconStep(r))
    /\ WF_vars(SendTry(Main) \/ SendLost(Main))

LiveSpec == InitLink /\ [][Next]_vars /\ Fairness

\* ================================================================ properties
Active == {r \in Recon : pc[r] # "idle"}
Sending == {"s_check", "s_try", "s_lost"}
Ended == pc[Main] \in {"m_returned", "exited"}

\* a reconnection thread is started in this step
Spawned == \E r \in Recon : pc[r] = "idle" /\ pc'[r] # "idle"

\* thread t's _send_message returns in this step
Returns(t) == pc[t] # "s_done" /\ pc'[t] = "s_done"

\* C1: at most one reconnection thread is between its start and the end of
\* _reconnect_loop; a send that fails while one is there starts no other.
C1_OneReconnection == Cardinality(Active) <= 1

\* C1 witness: a send of the job or heartbeat thread has failed and is about
\* to decide on a new thread while a reconnection thread is finishing
C1_Witness ==
    /\ _running
    /\ \E r \in Recon : pc[r] = "r_clear"
    /\ \E t \in {Main, HB} : pc[t] = "s_lost"

\* C2: a returned _send_message has returned True exactly if it handed its
\* frame to the transport, and False otherwise; it never raised.
C2_SendResult ==
    \A t \in Threads :
        pc[t] = "s_done" =>
            /\ ret[t] \in {"true", "false"}
            /\ (ret[t] = "true") <=> wrote[t]

\* C2 witness: one send has returned True, and another has returned False
\* on the link that disconnect() closed
C2_Witness ==
    /\ _socket = "closed"
    /\ \E t, u \in Threads :
        /\ pc[t] = "s_done" /\ ret[t] = "true"
        /\ pc[u] = "s_done" /\ ret[u] = "false"

\* C3 (as claimed): once a reconnection sequence has used up
\* max_reconnect_attempts failed attempts, no reconnection thread is started
\* any more and no send returns True any more.
C3_Detached ==
    [][obs.exhausted =>
        /\ ~Spawned
        /\ \A t \in Threads : Returns(t) => ret'[t] = "false"]_vars

\* thread t's sendall hands a frame to the transport in this step
Writes(t) == pc[t] = "s_try" /\ wrote'[t]

\* C4 (as claimed): on a connection opened by _try_reconnect no frame is
\* written before the reconnection thread's "started" frame.
C4_StartedFirst ==
    [][\A t \in Threads :
        (Writes(t) /\ wire.origin = "reconnect" /\ ~wire.started)
            => kind[t] = "started"]_vars

\* the connection was severed under a running link
Severed == _running /\ _socket = "conn" /\ ~peer

\* a "started" frame has arrived on a connection opened by _try_reconnect and
\* a send of the job or heartbeat thread has returned True on it
Recovered ==
    /\ wire.origin = "reconnect"
    /\ wire.started
    /\ \E t \in {Main, HB} : pc[t] = "s_done" /\ ret[t] = "true"

\* C5: if the connection is severed while the link runs, and from some time
\* on the server listens and the link is not closed, then a second "started"
\* frame is written and a send returns True again.
C5_Recovery ==
    (<>Severed /\ <>[](listening /\ _running)) => <>Recovered

\* C5 witness: recovered after a severed connection
C5_Witness == Recovered

\* C6: disconnect() is never run twice, and it has run once run_job is left
\* with a link constructed.
C6_DisconnectOnce ==
    /\ obs.disconnect <= 1
    /\ (obs.link /\ Ended) => obs.disconnect = 1

\* C6 witness: run_job was left through the except path of a failed initial
\* connect (the handler never ran)
C6_Witness ==
    /\ pc[Main] = "exited"
    /\ obs.link
    /\ obs.handler = 0
    /\ obs.disconnect = 1

\* C7 (as claimed): at the return of disconnect() the socket is closed and
\* the heartbeat thread is in no send and will start none.
C7_HeartbeatStopped ==
    [][(~obs.returned /\ obs.returned') =>
        /\ _socket' \in {None, "closed"}
        /\ pc'[HB] \notin Sending]_vars

\* C8 (as claimed): after disconnect() has returned no connection is
\* established, no reconnection thread writes its "started" frame, and with
\* no reconnection thread left the link's socket is not open.
C8_NoReconnectAfterClose ==
    [][obs.returned =>
        /\ ~(_socket # "conn" /\ _socket' = "conn")
        /\ \A r \in Recon : Returns(r) => ret'[r] = "false"
        /\ (Active' = {}) => _socket' \in {None, "closed"}]_vars

TargetOf(in, env) ==
    IF in.socketPath # NoStr THEN in.socketPath
    ELSE IF env.SOCKET_PATH # NoStr THEN env.SOCKET_PATH
    ELSE IF env.TCP_PORT # NoStr THEN <<"tcp://", "127.0.0.1", ":">> \o env.TCP_PORT
    ELSE NoStr

JobIdOf(in, env) == IF in.jobId # NoStr THEN in.jobId ELSE env.JOB_ID

BadHandshake(in, env) ==
    \/ in.line = "eof"
    \/ in.line = "garbage"
    \/ JobIdOf(in, env) = NoStr
    \/ TargetOf(in, env) = NoStr

\* nothing but the exit has happened
Rejected ==
    /\ pc[Main] = "exited"
    /\ obs.exit = 1
    /\ ~obs.link
    /\ ~obs.attempted
    /\ _socket = None
    /\ wire = NoWire
    /\ \A t \in Threads \ {Main} : pc[t] = "idle"

\* C10: when run_job has read a handshake with no line, an unparsable line,
\* or no job id or no target after the fallback, the process has exited with
\* code 1 without a link, a connection attempt or an event.
C10_FailFast ==
    [][(pc[Main] = "m_read" /\ pc'[Main] # "m_read" /\ BadHandshake(stdin, environ))
        => Rejected']_vars

\* C10 witness: rejected with a job id in the payload and a port-less,
\* path-less environment
C10_Witness ==
    /\ phase = "rejected"
    /\ stdin.line = "object"
    /\ stdin.jobId # NoStr
    /\ stdin.socketPath = NoStr
    /\ environ.SOCKET_PATH = NoStr
    /\ environ.TCP_PORT = NoStr

\* the initial connect raised: run_job called fail() with no handler outcome
ConnectFailed == obs.fail > 0 /\ obs.outcome = "none"

\* C11: after a failed initial connect no frame reaches a transport, the
\* handler is not invoked, no heartbeat or reconnection thread is started,
\* and run_job is left with exit code 1.
C11_ConnectFatal ==
    ConnectFailed =>
        /\ wire = NoWire
        /\ \A t \in Threads : ~wrote[t] /\ ret[t] # "true"
        /\ obs.handler = 0
        /\ _heartbeat_thread = None
        /\ _reconnect_thread = None
        /\ \A t \in Threads \ {Main} : pc[t] = "idle"
        /\ Ended => obs.exit = 1

\* C11 witness: the fail() of the except path has tried the unconnected
\* socket and returned False
C11_Witness ==
    /\ ConnectFailed
    /\ pc[Main] = "s_done"
    /\ ret[Main] = "false"
    /\ _socket = "unconn"

\* C12 (as claimed): on the connection opened by connect() no frame is
\* written before the "started" frame of connect().
C12_InitialStartedFirst ==
    [][\A t \in Threads :
        (Writes(t) /\ wire.origin = "connect" /\ ~wire.started)
            => kind[t] = "started"]_vars

\* C13 (as claimed): once the completed or failed frame of run_job has been
\* written, no thread writes another frame.
C13_TerminalIsLast ==
    [][wire.final => \A t \in Threads : ~Writes(t)]_vars

\* the threads inside "with self._lock", encoding and writing a frame
Writing == {t \in Threads : pc[t] \in {"s_try", "s_lost"}}

\* C14: at most one thread at a time is inside the locked section of
\* _send_message, and it is the holder of the send lock, so two frames are
\* never written at once.
C14_ExclusiveWrites ==
    /\ Cardinality(Writing) <= 1
    /\ \A t \in Writing : _lock = t

\* a reconnection thread is writing its started frame while the job thread
\* and the heartbeat thread both wait for the send lock
C14_Witness ==
    \E r \in Recon :
        /\ pc[r] = "s_try"
        /\ kind[r] = "started"
        /\ pc[Main] = "s_check"
        /\ pc[HB] = "s_check"
        /\ Writable

\* thread t's call returns in this step from a message json.dumps rejects
EncodeFails(t) == pc[t] = "s_try" /\ ~encodable[t] /\ pc'[t] = "s_done"

\* C15 (as claimed): a message that cannot be encoded makes the call raise
\* to its caller, it is not answered with False, and nothing is written.
C15_EncodingRaises ==
    [][\A t \in Threads :
        EncodeFails(t) => ret'[t] = "raised" /\ ~wrote'[t] /\ wire' = wire]_vars

\* C15 (amended): a message that cannot be encoded writes nothing, and the
\* error is caught inside _send_message, which returns False to its caller.
C15_EncodingFalse ==
    [][\A t \in Threads :
        EncodeFails(t) => ret'[t] = "false" /\ ~wrote'[t] /\ wire' = wire]_vars

\* the job thread's call has returned False for an unencodable payload on a
\* link that would have carried the frame
C15_Witness ==
    /\ pc[Main] = "s_done"
    /\ ~encodable[Main]
    /\ ret[Main] = "false"
    /\ ~wrote[Main]
    /\ Writable
    /\ _connected

\* C16: only reconnection threads ever hold the reconnect-guard lock; a call
\* of _send_message that finds the send lock free enters it whatever the
\* state of the reconnect-guard lock, and the holder of the send lock can
\* always take its next step and release it, so no thread of a running
\* process waits for a lock that is never released.
C16_SendNeverWaits ==
    /\ _reconnect_lock \in Recon \cup {None}
    /\ Alive =>
        /\ \A t \in Threads :
            (pc[t] = "s_check" /\ _lock = None) => ENABLED SendEnter(t)
        /\ \A t \in Threads :
            _lock = t => ENABLED (SendTry(t) \/ SendLost(t))

\* a reconnection thread holds the reconnect-guard lock and waits for the
\* send lock to send started, the job thread holds the send lock, and the
\* heartbeat thread waits for it
C16_Witness ==
    \E r \in Recon :
        /\ _reconnect_lock = r
        /\ pc[r] = "s_check"
        /\ _lock = Main
        /\ pc[HB] = "s_check"

\* iteration n of the loop of _try_reconnect starts in this step of thread r
AttemptStarts(r, n) ==
    /\ pc[r] \in {"r_lock", "r_sleep"}
    /\ pc'[r] \in {"r_connect", "r_sleep"}
    /\ attempt'[r] = n
    /\ pc[r] = "r_sleep" => attempt[r] # n

\* thread r is past a successful connection attempt
Succeeded(r) == pc[r] \in {"r_connected", "s_done"} \cup Sending

\* _try_reconnect returns False in this step of thread r
ReturnsFailure(r) ==
    /\ pc[r] \in {"r_lock", "r_sleep"}
    /\ pc'[r] = "r_clear"
    /\ ~_connected

\* C17: a reconnection sequence makes its attempts one after the other,
\* numbered 0, 1, ... below max_reconnect_attempts, each but the first after
\* the sleep that follows a failed attempt; a successful attempt sets
\* _connected, sends started and is followed by no other attempt; the
\* sequence returns failure exactly when max_reconnect_attempts attempts have
\* failed, which is at once when max_reconnect_attempts is 0.
C17_BoundedAttempts ==
    [][\A r \in Recon :
        /\ \A n \in 0..(max_reconnect_attempts + 1) :
            AttemptStarts(r, n) =>
                /\ n < _max_reconnect_attempts
                /\ n = IF pc[r] = "r_lock" THEN 0 ELSE attempt[r] + 1
        /\ (pc[r] = "r_connect" /\ pc'[r] # "r_connect") =>
                pc'[r] \in {"r_connected", "r_sleep", "idle"}
        /\ (pc[r] = "r_connected" /\ pc'[r] # "r_connected") =>
                \/ _connected' /\ kind'[r] = "started" /\ pc'[r] = "s_check"
                \/ pc'[r] = "idle"
        /\ Succeeded(r) => pc'[r] \notin {"r_lock", "r_connect", "r_sleep"}
        /\ ReturnsFailure(r) =>
                /\ attempt'[r] = _max_reconnect_attempts
                /\ pc[r] = "r_lock" <=> _max_reconnect_attempts = 0
                /\ UNCHANGED _socket
        /\ attempt'[r] <= _max_reconnect_attempts]_vars

\* a sequence has returned failure after max_reconnect_attempts failed
\* attempts, more than one
C17_Witness ==
    \E r \in Recon :
        /\ pc[r] = "r_clear"
        /\ obs.exhausted
        /\ attempt[r] = _max_reconnect_attempts
        /\ _max_reconnect_attempts > 1
        /\ _socket = "unconn"

\* reconnection thread r has a connection attempt in progress or ahead, or
\* has just connected and not yet marked the link connected
WillAttempt(r) ==
    \/ pc[r] = "r_lock" /\ MoreAttempts(0)
    \/ pc[r] = "r_connect"
    \/ pc[r] = "r_sleep" /\ MoreAttempts(attempt[r] + 1)
    \/ pc[r] = "r_connected"

\* no reconnection sequence has used up its attempts, the sleep after the
\* last failed attempt included
Unexhausted ==
    /\ ~obs.exhausted
    /\ \A r \in Recon : pc[r] = "r_sleep" => MoreAttempts(attempt[r] + 1)

\* C18 (as claimed): when a send fails on the transport while the link is
\* running and no reconnection sequence has used up its attempts, then on
\* return of that send some reconnection thread has a connection attempt in
\* progress or ahead.  Read in the code's favour: a send that failed on the
\* old socket while a reconnection thread has already put a working
\* connection in place needs no further attempt.
C18_ReconnectInFlight ==
    [][\A t \in Threads :
        (pc[t] = "s_lost" /\ pc'[t] = "s_done" /\ _running /\ Unexhausted)
            => Writable' \/ \E r \in Recon : WillAttempt(r)']_vars

\* C19 (as claimed): a completed or failed frame is written only if the
\* server has received no completed or failed frame of this session yet.
C19_OneTerminal ==
    [][\A t \in Threads :
        (Writes(t) /\ kind[t] \in Terminal) => ~wire.terminal]_vars

\* _try_reconnect returns True in this step of thread r: after _send_started
\* returned (line 103), or at once because _connected was set (line 83)
ReturnsSuccess(r) ==
    /\ pc'[r] = "r_clear"
    /\ \/ pc[r] = "s_done"
       \/ pc[r] = "r_lock" /\ _connected

\* C20 (as claimed): _connected is true when a send returns True, and when a
\* reconnection sequence returns success.
C20_ConnectedAgrees ==
    [][/\ \A t \in Threads : (Returns(t) /\ ret'[t] = "true") => _connected'
       /\ \A r \in Recon : ReturnsSuccess(r) => _connected']_vars

====
